---- MODULE Spec2Model ----
(***************************************************************************)
(* A model of the association-rule miner of main.py: main() parses the two *)
(* thresholds, load_transactions() turns the lines of the input file into  *)
(* transactions, apriori() runs the level-wise search, generate_rules()    *)
(* derives one-item-RHS rules from the maximal itemsets and save_results() *)
(* writes the report.                                                      *)
(*                                                                         *)
(* Strings are sequences of tokens (a token is a run of characters that    *)
(* the program never looks inside); Python sets are TLA+ sets, lists are   *)
(* sequences and dicts are functions whose DOMAIN is the key set.  The     *)
(* thresholds used are multiples of 1/20 and the ones that are accepted    *)
(* are dyadic (0, 0.5, 1), so the float products and quotients of the code *)
(* are exact for the counts of the model and are written as fractions.     *)
(***************************************************************************)
EXTENDS Integers, Sequences, FiniteSets, TLC

VARIABLES
    pc,                    \* position of the run inside main()
    argv,                  \* sys.argv
    fs_input,              \* the input file
    min_sup, min_conf,     \* parsed thresholds, in units of 1/Scale
    line_no,               \* index of the line load_transactions is reading
    transactions,          \* list of transactions built so far
    k,                     \* level of the level-wise loop
    candidates,            \* candidates handed to the last count_support
    frequent_itemsets,     \* frequent itemsets of the last level
    support_counts,        \* support counts of the last level
    all_frequent_itemsets, \* accumulated frequent itemsets
    all_support_counts,    \* accumulated support counts
    maximal_frequent,      \* set of maximal frequent itemsets
    total_transactions,
    todo_itemsets,         \* maximal itemsets generate_rules has not visited
    cur_itemset,           \* itemset of the running outer iteration, or {}
    todo_items,            \* items of cur_itemset not yet tried as RHS
    rules,                 \* list of rules
    output_txt,            \* <<>>, or <<r>> once the report r is written
    stdout,                \* messages printed
    exit_status,           \* -1 while running, then the exit status
    calls,                 \* functions entered so far
    levels                 \* levels generate_candidates was called for

vars == <<pc, argv, fs_input, min_sup, min_conf, line_no, transactions, k,
          candidates, frequent_itemsets, support_counts, all_frequent_itemsets,
          all_support_counts, maximal_frequent, total_transactions,
          todo_itemsets, cur_itemset, todo_items, rules, output_txt, stdout,
          exit_status, calls, levels>>

(***************************************************************************)
(* Bounds of the model.                                                    *)
(***************************************************************************)
MaxLines == 2

MaxColl == 3

(***************************************************************************)
(* Strings.                                                                *)
(***************************************************************************)
\* The tokens in code-point order (' ' < ',' < digits < upper case < '_').
TokenOrder ==
    <<" ", ",", "14", "21", "Bronx", "Evening", "High Fine", "Low Fine", "Medium Fine",
      "Morning", "NoPark", "NoStand", "Queens", "Violation", "_">>

Rank(tok) == CHOOSE i \in 1..Len(TokenOrder) : TokenOrder[i] = tok

\* s < t for two strings
RECURSIVE StrLess(_, _)
StrLess(s, t) ==
    IF t = <<>> THEN FALSE
    ELSE IF s = <<>> THEN TRUE
    ELSE IF Head(s) # Head(t) THEN Rank(Head(s)) < Rank(Head(t))
    ELSE StrLess(Tail(s), Tail(t))

\* sub in s
Contains(s, sub) ==
    \E i \in 0..(Len(s) - Len(sub)) :
        \A j \in 1..Len(sub) : s[i + j] = sub[j]

\* s.startswith(pre)
StartsWith(s, pre) ==
    /\ Len(pre) <= Len(s)
    /\ \A j \in 1..Len(pre) : s[j] = pre[j]

\* s.strip()
RECURSIVE LStrip(_)
LStrip(s) == IF s # <<>> /\ Head(s) = " " THEN LStrip(Tail(s)) ELSE s

RECURSIVE RStrip(_)
RStrip(s) ==
    IF s # <<>> /\ s[Len(s)] = " " THEN RStrip(SubSeq(s, 1, Len(s) - 1)) ELSE s

Strip(s) == RStrip(LStrip(s))

\* s.split(','): always at least one field
RECURSIVE Split(_)
Split(s) ==
    IF \A i \in 1..Len(s) : s[i] # ","
    THEN <<s>>
    ELSE LET i == CHOOSE i \in 1..Len(s) :
                      /\ s[i] = ","
                      /\ \A j \in 1..(i - 1) : s[j] # ","
         IN  <<SubSeq(s, 1, i - 1)>> \o Split(SubSeq(s, i + 1, Len(s)))

\* sorted(S) for a set of strings
RECURSIVE Sorted(_)
Sorted(S) ==
    IF S = {} THEN <<>>
    ELSE LET m == CHOOSE x \in S : \A y \in S \ {x} : StrLess(x, y)
         IN  <<m>> \o Sorted(S \ {m})

\* a < b for two lists of strings
RECURSIVE ListLess(_, _)
ListLess(a, b) ==
    IF b = <<>> THEN FALSE
    ELSE IF a = <<>> THEN TRUE
    ELSE IF Head(a) # Head(b) THEN StrLess(Head(a), Head(b))
    ELSE ListLess(Tail(a), Tail(b))

(***************************************************************************)
(* Dicts.                                                                  *)
(***************************************************************************)
EmptyDict == [x \in {} |-> 0]

\* d1.update(d2)
Update(d1, d2) ==
    [x \in (DOMAIN d1) \cup (DOMAIN d2) |->
        IF x \in DOMAIN d2 THEN d2[x] ELSE d1[x]]

\* d.get(x, 0)
Get(d, x) == IF x \in DOMAIN d THEN d[x] ELSE 0

(***************************************************************************)
(* Inputs: the command line and the content of the input file.             *)
(***************************************************************************)
\* A file that does not exist and a file of the given lines.
NoFile == [exists |-> FALSE, lines |-> <<>>]

FileOf(ls) == [exists |-> TRUE, lines |-> ls]

\* Thresholds are held in units of 1/Scale.
Scale == 20

\* float(s): ok is FALSE where float() raises ValueError.
FloatOf(s) ==
    CASE s = "-0.5" -> [ok |-> TRUE,  nan |-> FALSE, val |-> -10]
      [] s = "0"    -> [ok |-> TRUE,  nan |-> FALSE, val |-> 0]
      [] s = "0.5"  -> [ok |-> TRUE,  nan |-> FALSE, val |-> 10]
      [] s = "1"    -> [ok |-> TRUE,  nan |-> FALSE, val |-> 20]
      [] s = "1.1"  -> [ok |-> TRUE,  nan |-> FALSE, val |-> 22]
      [] s = "nan"  -> [ok |-> TRUE,  nan |-> TRUE,  val |-> 0]
      [] OTHER      -> [ok |-> FALSE, nan |-> FALSE, val |-> 0]

ThresholdArgs == {"abc", "nan", "-0.5", "0", "0.5", "1", "1.1"}

ArgvSet ==
    {<<"main.py", "data.csv", s, c>> : s \in ThresholdArgs, c \in ThresholdArgs}
    \cup {<<"main.py", "data.csv", "0.5">>}

\* InUnitRange with the bounds excluded
InUnitRange_strict(x) == ~x.nan /\ 0 < x.val /\ x.val < Scale

\* 0 <= x <= 1; every comparison with nan is False
InUnitRange(x) == ~x.nan /\ 0 <= x.val /\ x.val <= Scale

\* the condition under which lines 202-205 raise no ValueError
ArgsAccepted(a) ==
    /\ FloatOf(a[3]).ok
    /\ FloatOf(a[4]).ok
    /\ InUnitRange(FloatOf(a[3])) /\ InUnitRange(FloatOf(a[4]))

LineA == <<"Bronx", ",", "Morning", ",", "Low Fine", ",", "Bronx", ",",
           "21", ",", "NoPark">>
LineB == <<"Queens", ",", "Evening", ",", "Low Fine", ",", "Queens", ",",
           "14", ",", "NoStand">>
LineC == <<" ", "Queens", ",", " ", "Morning", ",", "Low Fine", " ", ",",
           "Queens", ",", "21", ",", "NoPark", " ">>
LineShort == <<"Bronx", ",", "Morning", ",", "Low Fine", ",", "Bronx", ",", "21">>
LineEmptyField == <<"Bronx", ",", ",", "Low Fine", ",", "Bronx", ",",
                    "21", ",", "NoPark">>
LineBlank == <<>>

GoodLines == {LineA, LineB, LineC}
BadLines == {LineShort, LineEmptyField, LineBlank}

RECURSIVE SeqsUpTo(_, _)
SeqsUpTo(S, n) ==
    IF n = 0 THEN {<<>>}
    ELSE LET shorter == SeqsUpTo(S, n - 1)
         IN  shorter \cup {Append(s, x) : s \in {t \in shorter : Len(t) = n - 1},
                                          x \in S}

FileSet ==
    {FileOf(ls) : ls \in SeqsUpTo(GoodLines \cup BadLines, MaxLines)}
    \cup {NoFile}

(***************************************************************************)
(* load_transactions                                                       *)
(***************************************************************************)
\* items = [item.strip() for item in line.strip().split(',')]
Fields(line) == LET parts == Split(Strip(line))
                IN  [i \in 1..Len(parts) |-> Strip(parts[i])]

\* the transaction of a line of six fields (lines 12-21)
TransactionOf(items) ==
    LET borough == items[1]
        time_period == items[2]
        fine_level == items[3]
        vehicle_type == items[4]
        violation_item == <<"Violation", "_">> \o items[5] \o <<"_">> \o items[6]
        hierarchical_item == fine_level \o <<"_">> \o violation_item
    IN  {borough, time_period, fine_level, vehicle_type, violation_item,
         hierarchical_item}

(***************************************************************************)
(* The mining functions.                                                   *)
(***************************************************************************)
KSubsets(S, n) == {x \in SUBSET S : Cardinality(x) = n}

get_itemsets(ts, n) ==
    UNION {KSubsets(ts[i], n) : i \in 1..Len(ts)}

\* count_support counting the transactions that share an item with the itemset
count_support_any(ts, itemsets) ==
    LET n(c) == Cardinality({i \in 1..Len(ts) : c \cap ts[i] # {}})
    IN  [c \in {c \in itemsets : n(c) > 0} |-> n(c)]

\* A defaultdict(int): a key is created by the first += 1 on it.
count_support(ts, itemsets) ==
    LET n(c) == Cardinality({i \in 1..Len(ts) : c \subseteq ts[i]})
    IN  [c \in {c \in itemsets : n(c) > 0} |-> n(c)]

\* count >= min_sup * total_transactions
MeetsMinSup(count, ms, total) == count * Scale >= ms * total

filter_frequent_itemsets(sc, ms, total) ==
    [c \in {c \in DOMAIN sc : MeetsMinSup(sc[c], ms, total)} |-> sc[c]]

\* the union of an itemset with itself has n - 1 items and is never kept
generate_candidates(freq, n) ==
    LET keys == DOMAIN freq
        unions == {u \in {a \cup b : a \in keys, b \in keys} :
                      Cardinality(u) = n}
    IN  {c \in unions : \A sub \in KSubsets(c, n - 1) : sub \in keys}

\* Accumulate keeping the last level only
Accumulate_overwrite(all, level) == level

\* all_frequent_itemsets.update(frequent_itemsets), and the same for counts
Accumulate(all, level) == Update(all, level)

\* LenOrdered without reverse=True
LenOrdered_ascending(a, b) == Cardinality(a) <= Cardinality(b)

\* sorted(..., key=len, reverse=True) puts a before b only if this holds
LenOrdered(a, b) == Cardinality(a) >= Cardinality(b)

\* the orders sorted(keys, key=len, reverse=True) can return: the dict's own
\* order is kept among keys of one length
LenSortedOrders(keys) ==
    {s \in [1..Cardinality(keys) -> keys] :
        /\ \A i, j \in DOMAIN s : i # j => s[i] # s[j]
        /\ \A i, j \in DOMAIN s : i < j => LenOrdered(s[i], s[j])}

\* lines 86-92: one pass of the loop
MaximalStep(itemset, maximal) ==
    LET is_maximal == ~\E other \in maximal : itemset \subseteq other
    IN  IF is_maximal THEN maximal \cup {itemset} ELSE maximal

\* the loop of lines 85-92 over sorted_itemsets, from the maximal set so far:
\* the loop over a list is the loop over its first half, then over the rest
\* (the test on first makes TLC evaluate it before it goes on)
RECURSIVE MaximalLoop(_, _)
MaximalLoop(sorted_itemsets, maximal) ==
    IF Len(sorted_itemsets) = 0 THEN maximal
    ELSE IF Len(sorted_itemsets) = 1
    THEN MaximalStep(sorted_itemsets[1], maximal)
    ELSE LET half == Len(sorted_itemsets) \div 2
             first == MaximalLoop(SubSeq(sorted_itemsets, 1, half), maximal)
             rest == SubSeq(sorted_itemsets, half + 1, Len(sorted_itemsets))
         IN  IF first = {} THEN MaximalLoop(rest, {})
             ELSE MaximalLoop(rest, first)

find_maximal_frequent_itemsets(sorted_itemsets) ==
    MaximalLoop(sorted_itemsets, {})

\* The list of the elements x of a set, given as the set of the pairs
\* <<place of x, x>>, the places being 1, 2, ... (under a total order the
\* place of an element is one more than the number of elements before it).
ListByPlace(placed) ==
    [i \in 1..Cardinality(placed) |-> (CHOOSE p \in placed : p[1] = i)[2]]

\* a comes before b in the order taken among the orders of LenSortedOrders:
\* keys of one length by their sorted items
KeyBefore(a, b) ==
    \/ ~LenOrdered(b.itemset, a.itemset)
    \/ /\ LenOrdered(a.itemset, b.itemset)
       /\ LenOrdered(b.itemset, a.itemset)
       /\ ListLess(a.items, b.items)

\* one of the orders of LenSortedOrders
OneLenSortedOrder(keys) ==
    LET keyed == {[itemset |-> x, items |-> Sorted(x)] : x \in keys}
        sorted_keyed == ListByPlace(
            {<<1 + Cardinality({y \in keyed : KeyBefore(y, x)}), x>> :
                x \in keyed})
    IN  [i \in 1..Len(sorted_keyed) |-> sorted_keyed[i].itemset]

(***************************************************************************)
(* generate_rules                                                          *)
(***************************************************************************)
fine_levels == {<<"Low Fine">>, <<"Medium Fine">>, <<"High Fine">>}

\* SkippedAsRhs for the violation item alone
SkippedAsRhs_prefix(rhs_item) == StartsWith(rhs_item, <<"Violation", "_">>)

\* "_" in rhs_item and "Violation_" in rhs_item
SkippedAsRhs(rhs_item) ==
    Contains(rhs_item, <<"_">>) /\ Contains(rhs_item, <<"Violation", "_">>)

\* lines 152-157
IsTrivial(rhs_item, lhs) ==
    /\ rhs_item \in fine_levels
    /\ \E lhs_item \in lhs :
          StartsWith(lhs_item, rhs_item \o <<"_", "Violation", "_">>)

\* MeetsMinConf with the quotient upside down
MeetsMinConf_inverted(support, lhs_support, mc) ==
    lhs_support * Scale >= mc * support

\* confidence >= min_conf, with confidence = support / lhs_support
MeetsMinConf(support, lhs_support, mc) == support * Scale >= mc * lhs_support

\* The rules one pass of the inner loop (lines 142-168) appends: none or one.
\* A float is kept as the pair <<numerator, denominator>> it is the quotient of.
NewRules(itemset, rhs_item, sc, mc, total) ==
    LET support == Get(sc, itemset)
        rhs == {rhs_item}
        lhs == itemset \ rhs
        lhs_support == Get(sc, lhs)
    IN  IF SkippedAsRhs(rhs_item) THEN <<>>
        ELSE IF lhs = {} THEN <<>>
        ELSE IF IsTrivial(rhs_item, lhs) THEN <<>>
        ELSE IF lhs_support = 0 THEN <<>>
        ELSE IF MeetsMinConf(support, lhs_support, mc)
             THEN <<[lhs |-> lhs, rhs |-> rhs,
                     rule_support |-> <<support, total>>,
                     confidence |-> <<support, lhs_support>>]>>
             ELSE <<>>

\* support_counts[itemset] on a defaultdict creates a missing key
Touch(d, x) == IF x \in DOMAIN d THEN d ELSE Update(d, [y \in {x} |-> 0])

(***************************************************************************)
(* save_results                                                            *)
(***************************************************************************)
\* p < q for two floats kept as quotients of naturals, denominators positive
FracLess(p, q) == p[1] * q[2] < q[1] * p[2]

\* f"{100 * p:.1f}" as a number of tenths; no value of the model lies midway
Tenths(p) == (2000 * p[1] + p[2]) \div (2 * p[2])

\* key (-x[1], sorted(x[0])) of a pair (itemset, support): a comes before b
ItemsetBefore(a, b) ==
    \/ a.count > b.count
    \/ a.count = b.count /\ ListLess(a.items, b.items)

\* sorted(frequent_itemsets.items(), key=...), each pair with its sorted
\* items; no two keys are equal
SortItemsets(freq) ==
    LET keyed == {[count |-> freq[x], items |-> Sorted(x)] : x \in DOMAIN freq}
    IN  ListByPlace(
            {<<1 + Cardinality({y \in keyed : ItemsetBefore(y, x)}), x>> :
                x \in keyed})

\* key (-x[3], -x[2]) of a rule
RuleBefore(r, q) ==
    \/ FracLess(q.confidence, r.confidence)
    \/ /\ ~FracLess(r.confidence, q.confidence)
       /\ FracLess(q.rule_support, r.rule_support)

\* l without its i-th element
Remove(l, i) == SubSeq(l, 1, i - 1) \o SubSeq(l, i + 1, Len(l))

\* sorted(rules, key=...): stable, so rules of equal key keep their order
RECURSIVE SortRules(_)
SortRules(l) ==
    IF l = <<>> THEN <<>>
    ELSE LET i == CHOOSE i \in 1..Len(l) :
                      /\ \A j \in 1..Len(l) : ~RuleBefore(l[j], l[i])
                      /\ \A j \in 1..(i - 1) : RuleBefore(l[i], l[j])
         IN  <<l[i]>> \o SortRules(Remove(l, i))

\* f"[{items}], {support_percent:.1f}%"
ItemsetLine(x, total) ==
    [items |-> x.items, supp |-> Tenths(<<x.count, total>>)]

\* f"[{lhs_items}] => [{rhs_items}] (Conf: ..., Supp: ...)"
RuleLine(r) ==
    [lhs |-> Sorted(r.lhs), rhs |-> Sorted(r.rhs),
     conf |-> Tenths(r.confidence), supp |-> Tenths(r.rule_support)]

Report(freq, rs, total, ms, mc) ==
    LET sorted_itemsets == SortItemsets(freq)
        sorted_rules == SortRules(rs)
    IN  [min_sup |-> ms,
         itemsets |-> [i \in 1..Len(sorted_itemsets) |->
                          ItemsetLine(sorted_itemsets[i], total)],
         min_conf |-> mc,
         rules |-> [i \in 1..Len(sorted_rules) |-> RuleLine(sorted_rules[i])]]

(***************************************************************************)
(* The run of main().                                                      *)
(***************************************************************************)
Init ==
    /\ pc = "main"
    /\ argv \in ArgvSet
    /\ fs_input \in FileSet
    /\ min_sup = 0
    /\ min_conf = 0
    /\ line_no = 1
    /\ transactions = <<>>
    /\ k = 0
    /\ candidates = {}
    /\ frequent_itemsets = EmptyDict
    /\ support_counts = EmptyDict
    /\ all_frequent_itemsets = EmptyDict
    /\ all_support_counts = EmptyDict
    /\ maximal_frequent = {}
    /\ total_transactions = 0
    /\ todo_itemsets = {}
    /\ cur_itemset = {}
    /\ todo_items = {}
    /\ rules = <<>>
    /\ output_txt = <<>>
    /\ stdout = <<>>
    /\ exit_status = -1
    /\ calls = {}
    /\ levels = <<>>

\* sys.exit(1) after a message, or an uncaught exception and its traceback
Abort(msg) ==
    /\ stdout' = Append(stdout, msg)
    /\ exit_status' = 1
    /\ pc' = "exit"

mining_vars == <<k, candidates, frequent_itemsets, support_counts, all_frequent_itemsets,
                 all_support_counts, maximal_frequent, total_transactions,
                 levels>>

rule_vars == <<todo_itemsets, cur_itemset, todo_items, rules>>

\* lines 196-198
MainUsage ==
    /\ pc = "main"
    /\ Len(argv) # 4
    /\ Abort("Usage")
    /\ UNCHANGED <<argv, fs_input, min_sup, min_conf, line_no, transactions,
                   output_txt, calls>>
    /\ UNCHANGED mining_vars
    /\ UNCHANGED rule_vars

\* lines 201-208, a ValueError raised
MainConfigError ==
    /\ pc = "main"
    /\ Len(argv) = 4
    /\ ~ArgsAccepted(argv)
    /\ Abort("min_sup and min_conf must be numbers between 0 and 1")
    /\ UNCHANGED <<argv, fs_input, min_sup, min_conf, line_no, transactions,
                   output_txt, calls>>
    /\ UNCHANGED mining_vars
    /\ UNCHANGED rule_vars

\* lines 201-210, no ValueError: load_transactions is called
MainArgsOk ==
    /\ pc = "main"
    /\ Len(argv) = 4
    /\ ArgsAccepted(argv)
    /\ min_sup' = FloatOf(argv[3]).val
    /\ min_conf' = FloatOf(argv[4]).val
    /\ calls' = calls \cup {"load_transactions"}
    /\ pc' = "load"
    /\ UNCHANGED <<argv, fs_input, line_no, transactions, output_txt, stdout,
                   exit_status>>
    /\ UNCHANGED mining_vars
    /\ UNCHANGED rule_vars

\* lines 9, 23-25
LoadFileNotFound ==
    /\ pc = "load"
    /\ ~fs_input.exists
    /\ Abort("File not found")
    /\ UNCHANGED <<argv, fs_input, min_sup, min_conf, line_no, transactions,
                   output_txt, calls>>
    /\ UNCHANGED mining_vars
    /\ UNCHANGED rule_vars

\* lines 10-21, one line of six fields
LoadLine ==
    /\ pc = "load"
    /\ fs_input.exists
    /\ line_no <= Len(fs_input.lines)
    /\ LET items == Fields(fs_input.lines[line_no])
       IN  /\ Len(items) = 6
           /\ transactions' = Append(transactions, TransactionOf(items))
    /\ line_no' = line_no + 1
    /\ UNCHANGED <<pc, argv, fs_input, min_sup, min_conf, output_txt, stdout,
                   exit_status, calls>>
    /\ UNCHANGED mining_vars
    /\ UNCHANGED rule_vars

\* line 12 raises ValueError, which nothing catches
LoadLineValueError ==
    /\ pc = "load"
    /\ fs_input.exists
    /\ line_no <= Len(fs_input.lines)
    /\ Len(Fields(fs_input.lines[line_no])) # 6
    /\ Abort("ValueError")
    /\ UNCHANGED <<argv, fs_input, min_sup, min_conf, line_no, transactions,
                   output_txt, calls>>
    /\ UNCHANGED mining_vars
    /\ UNCHANGED rule_vars

\* line 22, then lines 211 and 99-111: apriori up to the loop
AprioriStart ==
    /\ pc = "load"
    /\ fs_input.exists
    /\ line_no > Len(fs_input.lines)
    /\ calls' = calls \cup {"apriori"}
    /\ total_transactions' = Len(transactions)
    /\ LET candidate_itemsets == get_itemsets(transactions, 1)
           counts == count_support(transactions, candidate_itemsets)
           frequent == filter_frequent_itemsets(counts, min_sup,
                                                Len(transactions))
       IN  /\ candidates' = candidate_itemsets
           /\ support_counts' = counts
           /\ frequent_itemsets' = frequent
           /\ all_frequent_itemsets' = frequent
           /\ all_support_counts' = counts
    /\ k' = 2
    /\ pc' = "loop"
    /\ UNCHANGED <<argv, fs_input, min_sup, min_conf, line_no, transactions,
                   maximal_frequent, levels, output_txt, stdout, exit_status>>
    /\ UNCHANGED rule_vars

\* lines 112-123: one pass of the loop that ends at line 123
AprioriLevel ==
    /\ pc = "loop"
    /\ DOMAIN frequent_itemsets # {}
    /\ LET cands == generate_candidates(frequent_itemsets, k)
           counts == count_support(transactions, cands)
           frequent == filter_frequent_itemsets(counts, min_sup,
                                                total_transactions)
       IN  /\ cands # {}
           /\ candidates' = cands
           /\ support_counts' = counts
           /\ frequent_itemsets' = frequent
           /\ all_frequent_itemsets' = Accumulate(all_frequent_itemsets, frequent)
           /\ all_support_counts' = Accumulate(all_support_counts, counts)
    /\ levels' = Append(levels, k)
    /\ k' = k + 1
    /\ UNCHANGED <<pc, argv, fs_input, min_sup, min_conf, line_no, transactions,
                   maximal_frequent, total_transactions, output_txt, stdout,
                   exit_status, calls>>
    /\ UNCHANGED rule_vars

\* lines 126-128 and 212: apriori returns and generate_rules starts.  The
\* order of the dict among keys of one length is one of the possible ones.
AprioriReturn ==
    /\ maximal_frequent' = find_maximal_frequent_itemsets(
                               OneLenSortedOrder(DOMAIN all_frequent_itemsets))
    /\ todo_itemsets' = maximal_frequent'
    /\ calls' = calls \cup {"find_maximal_frequent_itemsets", "generate_rules"}
    /\ pc' = "rules"
    /\ UNCHANGED <<argv, fs_input, min_sup, min_conf, line_no, transactions, k,
                   candidates, frequent_itemsets, support_counts,
                   all_frequent_itemsets, all_support_counts,
                   total_transactions, cur_itemset, todo_items, rules,
                   output_txt, stdout, exit_status>>

\* lines 113-115: no candidate, the loop is left by break
AprioriBreak ==
    /\ pc = "loop"
    /\ DOMAIN frequent_itemsets # {}
    /\ generate_candidates(frequent_itemsets, k) = {}
    /\ levels' = Append(levels, k)
    /\ AprioriReturn

\* line 112: the last level found nothing frequent
AprioriLoopEnd ==
    /\ pc = "loop"
    /\ DOMAIN frequent_itemsets = {}
    /\ UNCHANGED levels
    /\ AprioriReturn

\* lines 136-139: the outer loop takes an itemset of fewer than two items
RulesSkipItemset ==
    /\ pc = "rules"
    /\ cur_itemset = {}
    /\ \E itemset \in todo_itemsets :
          /\ Cardinality(itemset) < 2
          /\ all_support_counts' = Touch(all_support_counts, itemset)
          /\ todo_itemsets' = todo_itemsets \ {itemset}
    /\ UNCHANGED <<pc, argv, fs_input, min_sup, min_conf, line_no, transactions,
                   k, candidates, frequent_itemsets, support_counts,
                   all_frequent_itemsets, maximal_frequent,
                   total_transactions, levels, cur_itemset,
                   todo_items, rules, output_txt, stdout, exit_status, calls>>

\* lines 136-139: the outer loop takes an itemset of two items or more
RulesEnterItemset ==
    /\ pc = "rules"
    /\ cur_itemset = {}
    /\ \E itemset \in todo_itemsets :
          /\ Cardinality(itemset) >= 2
          /\ all_support_counts' = Touch(all_support_counts, itemset)
          /\ todo_itemsets' = todo_itemsets \ {itemset}
          /\ cur_itemset' = itemset
          /\ todo_items' = itemset
    /\ UNCHANGED <<pc, argv, fs_input, min_sup, min_conf, line_no, transactions,
                   k, candidates, frequent_itemsets, support_counts,
                   all_frequent_itemsets, maximal_frequent,
                   total_transactions, levels, rules,
                   output_txt, stdout, exit_status, calls>>

\* lines 142-168: one pass of the inner loop; after the last item the outer
\* loop goes on
RulesTryItem ==
    /\ pc = "rules"
    /\ cur_itemset # {}
    /\ \E rhs_item \in todo_items :
          /\ rules' = rules \o NewRules(cur_itemset, rhs_item,
                                        all_support_counts, min_conf,
                                        total_transactions)
          /\ todo_items' = todo_items \ {rhs_item}
          /\ cur_itemset' = IF todo_items = {rhs_item} THEN {} ELSE cur_itemset
    /\ UNCHANGED <<pc, argv, fs_input, min_sup, min_conf, line_no, transactions,
                   todo_itemsets, output_txt, stdout, exit_status, calls>>
    /\ UNCHANGED mining_vars

\* lines 170, 213-215 and 175-192: the report is written
SaveResults ==
    /\ pc = "rules"
    /\ cur_itemset = {}
    /\ todo_itemsets = {}
    /\ calls' = calls \cup {"save_results"}
    /\ output_txt' = <<Report(all_frequent_itemsets, rules,
                              total_transactions, min_sup, min_conf)>>
    /\ stdout' = Append(stdout, "Results written to output.txt")
    /\ exit_status' = 0
    /\ pc' = "exit"
    /\ UNCHANGED <<argv, fs_input, min_sup, min_conf, line_no, transactions>>
    /\ UNCHANGED mining_vars
    /\ UNCHANGED rule_vars

Next ==
    \/ MainUsage
    \/ MainConfigError
    \/ MainArgsOk
    \/ LoadFileNotFound
    \/ LoadLine
    \/ LoadLineValueError
    \/ AprioriStart
    \/ AprioriLevel
    \/ AprioriBreak
    \/ AprioriLoopEnd
    \/ RulesSkipItemset
    \/ RulesEnterItemset
    \/ RulesTryItem
    \/ SaveResults

Spec == Init /\ [][Next]_vars

(***************************************************************************)
(* find_maximal_frequent_itemsets on its own: any collection of itemsets,  *)
(* in any order the dict may hold them.                                    *)
(***************************************************************************)
MaximalUniverse == {<<"Bronx">>, <<"Morning">>, <<"Low Fine">>, <<"Queens">>}

Collections ==
    {c \in SUBSET (SUBSET MaximalUniverse \ {{}}) : Cardinality(c) <= MaxColl}

InitMaximal ==
    /\ pc = "find_maximal"
    /\ all_frequent_itemsets \in {[x \in c |-> 1] : c \in Collections}
    /\ argv = <<>>
    /\ fs_input = NoFile
    /\ min_sup = 0
    /\ min_conf = 0
    /\ line_no = 1
    /\ transactions = <<>>
    /\ k = 0
    /\ candidates = {}
    /\ frequent_itemsets = EmptyDict
    /\ support_counts = EmptyDict
    /\ all_support_counts = EmptyDict
    /\ maximal_frequent = {}
    /\ total_transactions = 0
    /\ todo_itemsets = {}
    /\ cur_itemset = {}
    /\ todo_items = {}
    /\ rules = <<>>
    /\ output_txt = <<>>
    /\ stdout = <<>>
    /\ exit_status = -1
    /\ calls = {}
    /\ levels = <<>>

\* lines 82-94
FindMaximal ==
    /\ pc = "find_maximal"
    /\ \E sorted_itemsets \in LenSortedOrders(DOMAIN all_frequent_itemsets) :
          maximal_frequent' = find_maximal_frequent_itemsets(sorted_itemsets)
    /\ calls' = calls \cup {"find_maximal_frequent_itemsets"}
    /\ pc' = "found_maximal"
    /\ UNCHANGED <<argv, fs_input, min_sup, min_conf, line_no, transactions, k,
                   candidates, frequent_itemsets, support_counts,
                   all_frequent_itemsets, all_support_counts,
                   total_transactions, levels, output_txt, stdout, exit_status>>
    /\ UNCHANGED rule_vars

NextMaximal == FindMaximal

SpecMaximal == InitMaximal /\ [][NextMaximal]_vars

(***************************************************************************)
(* What the properties are stated with.                                    *)
(***************************************************************************)
\* the items occurring in the transactions
ItemsOf(ts) == UNION {ts[i] : i \in 1..Len(ts)}

\* the number of transactions that contain the itemset
SupportOf(ts, itemset) ==
    Cardinality({i \in 1..Len(ts) : itemset \subseteq ts[i]})

AprioriCalled == "apriori" \in calls

AprioriReturned == "generate_rules" \in calls

\* the state in which apriori returns
AtAprioriReturn ==
    /\ pc = "rules"
    /\ cur_itemset = {}
    /\ todo_itemsets = maximal_frequent
    /\ rules = <<>>

RulesGenerated == pc = "exit" /\ exit_status = 0

ProperSubset(a, b) == a \subseteq b /\ a # b

(***************************************************************************)
(* The properties.                                                         *)
(***************************************************************************)
\* C1: when apriori returns, its frequent-itemset collection is exactly the
\* non-empty itemsets over the items of the transactions whose support count
\* is at least min_sup * |transactions|, each with its support count.
C1_AprioriExact ==
    AprioriReturned =>
        all_frequent_itemsets =
            [s \in {s \in SUBSET ItemsOf(transactions) \ {{}} :
                       SupportOf(transactions, s) * Scale
                           >= min_sup * Len(transactions)}
                |-> SupportOf(transactions, s)]

\* C2: the mapping count_support returns has an entry for every candidate,
\* whose value is the number of transactions that contain the candidate (0
\* for a candidate that no transaction contains).
C2_CountSupportTotal ==
    pc = "loop" =>
        /\ DOMAIN support_counts = candidates
        /\ \A c \in candidates : support_counts[c] = SupportOf(transactions, c)

\* C3: at every level of the loop and at return from apriori, every non-empty
\* subset of an accumulated frequent itemset is accumulated too, with a
\* support count at least as large.
C3_DownwardClosure ==
    (pc = "loop" \/ AtAprioriReturn) =>
        \A f \in DOMAIN all_frequent_itemsets :
            \A sub \in SUBSET f \ {{}} :
                /\ sub \in DOMAIN all_frequent_itemsets
                /\ all_frequent_itemsets[sub] >= all_frequent_itemsets[f]

\* the loop is at its third level at least, and a subset of an accumulated
\* itemset of three items has a strictly larger count
C3_Witness ==
    /\ pc = "loop"
    /\ k >= 4
    /\ \E f \in DOMAIN all_frequent_itemsets :
          /\ Cardinality(f) = 3
          /\ \E sub \in SUBSET f \ {{}} :
                /\ sub \in DOMAIN all_frequent_itemsets
                /\ all_frequent_itemsets[sub] > all_frequent_itemsets[f]

\* C4: the collection find_maximal_frequent_itemsets returns holds no itemset
\* that is a proper subset of another of its itemsets, every itemset it was
\* given is a subset of one of its itemsets, and it is exactly the given
\* itemsets that have no proper superset among the given ones.
C4_MaximalSound ==
    pc = "found_maximal" =>
        LET given == DOMAIN all_frequent_itemsets
        IN  /\ \A a \in maximal_frequent :
                  \A b \in maximal_frequent : ~ProperSubset(a, b)
            /\ \A f \in given : \E m \in maximal_frequent : f \subseteq m
            /\ maximal_frequent =
                   {f \in given : ~\E g \in given : ProperSubset(f, g)}

\* an itemset was absorbed by a larger one and a singleton was kept
C4_Witness ==
    /\ pc = "found_maximal"
    /\ \E f \in DOMAIN all_frequent_itemsets : f \notin maximal_frequent
    /\ \E m \in maximal_frequent : Cardinality(m) = 1

\* C5: for every rule generate_rules emits, the stored support of the LHS is
\* not zero and is at least the support of the maximal itemset, these are
\* the true support counts, and the confidence, their quotient, is at least
\* min_conf and at most 1.
C5_ConfidenceBound ==
    \A i \in DOMAIN rules :
        LET r == rules[i]
            support == r.confidence[1]
            lhs_support == r.confidence[2]
        IN  /\ r.lhs \cup r.rhs \in maximal_frequent
            /\ lhs_support = Get(all_support_counts, r.lhs)
            /\ lhs_support = SupportOf(transactions, r.lhs)
            /\ support = SupportOf(transactions, r.lhs \cup r.rhs)
            /\ lhs_support > 0
            /\ support <= lhs_support
            /\ support * Scale >= min_conf * lhs_support

\* a rule of confidence below 1 was emitted under a positive min_conf
C5_Witness ==
    /\ min_conf > 0
    /\ \E i \in DOMAIN rules : rules[i].confidence[1] < rules[i].confidence[2]

RECURSIVE Flatten(_)
Flatten(ls) == IF ls = <<>> THEN <<>> ELSE Head(ls) \o Flatten(Tail(ls))

\* the rules of the run that visits the maximal itemsets, and the items of
\* each, in sorted order
RulesInSortedOrder ==
    LET keyed == {[itemset |-> x, items |-> Sorted(x)] :
                     x \in maximal_frequent}
        itemsets == ListByPlace(
            {<<1 + Cardinality({y \in keyed : ListLess(y.items, x.items)}), x>> :
                x \in keyed})
        rulesOf(x) == Flatten([i \in 1..Len(x.items) |->
                          NewRules(x.itemset, x.items[i], all_support_counts,
                                   min_conf, total_transactions)])
    IN  Flatten([i \in 1..Len(itemsets) |-> rulesOf(itemsets[i])])

\* C6: the report of a run, the order of its lines included, does not depend
\* on the order in which the set of maximal itemsets and the items of an
\* itemset are visited: it is the report of the run that visits them in
\* sorted order.
C6_Deterministic ==
    RulesGenerated =>
        output_txt[1] = Report(all_frequent_itemsets, RulesInSortedOrder,
                               total_transactions, min_sup, min_conf)

\* a record that has not exactly six fields, or that has an empty field
Malformed(line) ==
    LET f == Fields(line)
    IN  Len(f) # 6 \/ \E i \in 1..Len(f) : f[i] = <<>>

\* C7: a run whose input holds a malformed record never reaches apriori,
\* writes no report and ends with a non-zero exit status.
C7_MalformedAborts ==
    (fs_input.exists /\ \E i \in 1..Len(fs_input.lines) :
                            Malformed(fs_input.lines[i]))
    => /\ ~AprioriCalled
       /\ output_txt = <<>>
       /\ pc = "exit" => exit_status # 0

\* an argument that is not a number, or a number outside [0, 1]
NotAThreshold(s) == s \in {"abc", "nan", "-0.5", "1.1"}

ConfigMessage == "min_sup and min_conf must be numbers between 0 and 1"

\* C8: with a min_sup or min_conf that is not a number of [0, 1], main ends
\* with the configuration message and exit status 1 before the input is
\* loaded or mined, and writes no report; with any other, 0 and 1 included,
\* the message is not printed, the input is loaded and, when it is read
\* without an error, mined.
C8_ConfigCheck ==
    (Len(argv) = 4 /\ pc # "main") =>
        IF NotAThreshold(argv[3]) \/ NotAThreshold(argv[4])
        THEN /\ pc = "exit"
             /\ exit_status = 1
             /\ stdout = <<ConfigMessage>>
             /\ calls = {}
             /\ transactions = <<>>
             /\ output_txt = <<>>
        ELSE /\ \A i \in 1..Len(stdout) : stdout[i] # ConfigMessage
             /\ "load_transactions" \in calls
             /\ (pc = "exit" /\ stdout[Len(stdout)] \notin {"File not found", "ValueError"})
                    => AprioriCalled /\ exit_status = 0

\* a run with min_sup = 0 and min_conf = 1 that mined and wrote its report
C8_Witness ==
    /\ Len(argv) = 4
    /\ argv[3] = "0"
    /\ argv[4] = "1"
    /\ AprioriCalled
    /\ pc = "exit"
    /\ exit_status = 0
    /\ output_txt # <<>>

EmittedPairs == {<<rules[i].lhs, rules[i].rhs>> : i \in 1..Len(rules)}

\* support(s) / support(s - {r}) >= min_conf
ConfidentEnough(s, r) ==
    SupportOf(transactions, s) * Scale
        >= min_conf * SupportOf(transactions, s \ {r})

\* every rule has a non-empty LHS and a one-item RHS that partition a maximal
\* itemset, which has two items at least
RulesPartitionMaximal ==
    \A i \in 1..Len(rules) :
        /\ rules[i].lhs # {}
        /\ Cardinality(rules[i].rhs) = 1
        /\ rules[i].lhs \cap rules[i].rhs = {}
        /\ rules[i].lhs \cup rules[i].rhs \in maximal_frequent
        /\ Cardinality(rules[i].lhs \cup rules[i].rhs) >= 2

\* the fields of the records of the input that have six fields
Records ==
    {Fields(fs_input.lines[i]) :
        i \in {j \in 1..Len(fs_input.lines) : Len(Fields(fs_input.lines[j])) = 6}}

\* the items built from a violation code and a description
ViolationIdentityItems ==
    {<<"Violation", "_">> \o f[5] \o <<"_">> \o f[6] : f \in Records}

FineTierValues == {f[3] : f \in Records}

\* C9, as claimed: the rule (s - {r}) => {r} is emitted if and only if s is a
\* maximal itemset of two items or more, r is not a violation-identity item,
\* r is not a fine tier whose hierarchical item is in s - {r}, and the
\* confidence is at least min_conf; every rule partitions a maximal itemset.
C9_RuleSetAsClaimed ==
    RulesGenerated =>
        /\ RulesPartitionMaximal
        /\ \A s \in maximal_frequent : \A r \in s :
              <<s \ {r}, {r}>> \in EmittedPairs
              <=> /\ Cardinality(s) >= 2
                  /\ r \notin ViolationIdentityItems
                  /\ ~(/\ r \in FineTierValues
                       /\ \E v \in ViolationIdentityItems :
                             r \o <<"_">> \o v \in s \ {r})
                  /\ ConfidentEnough(s, r)

\* C9, amended: the rule (s - {r}) => {r} is emitted if and only if s is a
\* maximal itemset of two items or more, r does not contain "Violation_" (so
\* r is neither a violation-identity item nor a hierarchical item), it is
\* not the case that r is "Low Fine", "Medium Fine" or "High Fine" and an
\* item of s - {r} starts with r followed by "_Violation_", and the
\* confidence is at least min_conf; every rule partitions a maximal itemset.
C9_RuleSet ==
    RulesGenerated =>
        /\ RulesPartitionMaximal
        /\ \A s \in maximal_frequent : \A r \in s :
              <<s \ {r}, {r}>> \in EmittedPairs
              <=> /\ Cardinality(s) >= 2
                  /\ ~Contains(r, <<"Violation", "_">>)
                  /\ ~(/\ r \in {<<"Low Fine">>, <<"Medium Fine">>,
                                 <<"High Fine">>}
                       /\ \E l \in s \ {r} :
                             StartsWith(l, r \o <<"_", "Violation", "_">>))
                  /\ ConfidentEnough(s, r)

\* a maximal itemset gave a rule, and gave none for its hierarchical item,
\* whose confidence is high enough
C9_Witness ==
    /\ RulesGenerated
    /\ \E s \in maximal_frequent : \E r \in s : \E q \in s :
          /\ r \notin ViolationIdentityItems
          /\ Contains(r, <<"Violation", "_">>)
          /\ ConfidentEnough(s, r)
          /\ <<s \ {r}, {r}>> \notin EmittedPairs
          /\ <<s \ {q}, {q}>> \in EmittedPairs

\* C10: the loop of apriori ends: each pass raises the level k by one or
\* leaves the loop, and k stays within the number of distinct items plus one
\* while there is a frequent itemset to go on from.  It is run for the levels
\* 2, 3, ... in order, none above the number of distinct items plus one; it
\* goes on from a level only if that level has candidates and the one before
\* it frequent itemsets, and it is left otherwise; no entry of the
\* accumulated collection is removed or changes its count.
C10_LevelLoop ==
    /\ [](pc = "loop" =>
             /\ k = Len(levels) + 2
             /\ DOMAIN frequent_itemsets # {}
                    => k <= Cardinality(ItemsOf(transactions)) + 1)
    /\ [](\A i \in 1..Len(levels) :
             /\ levels[i] = i + 1
             /\ levels[i] <= Cardinality(ItemsOf(transactions)) + 1)
    /\ [][pc = "loop" =>
             \/ /\ pc' = "loop"
                /\ k' = k + 1
                /\ levels' = Append(levels, k)
                /\ DOMAIN frequent_itemsets # {}
                /\ candidates' # {}
             \/ /\ pc' = "rules"
                /\ \/ DOMAIN frequent_itemsets = {}
                   \/ generate_candidates(frequent_itemsets, k) = {}]_vars
    /\ [][(/\ pc = "loop"
           /\ \/ DOMAIN frequent_itemsets = {}
              \/ generate_candidates(frequent_itemsets, k) = {})
             => pc' = "rules"]_vars
    /\ [][pc = "loop"
             => \A x \in DOMAIN all_frequent_itemsets :
                    /\ x \in DOMAIN all_frequent_itemsets'
                    /\ all_frequent_itemsets'[x] = all_frequent_itemsets[x]]_vars

\* the loop was left after the level of the number of distinct items plus one
C10_Witness ==
    /\ pc = "rules"
    /\ Len(levels) >= 3
    /\ levels[Len(levels)] = Cardinality(ItemsOf(transactions)) + 1

====
